---- MODULE Spec2Model ----
(***************************************************************************)
(* Model of LlamaTransformerSplitServer (src/LlamaTransformerServer.py):   *)
(* the listener loop of start_server and the per-connection handler        *)
(* handle_client, one action per blocking call or statement group.         *)
(*                                                                         *)
(* The peer of a connection is the environment: every recv draws the       *)
(* bytes it returns (or end-of-stream) from a bounded set, every layer     *)
(* call and every send either returns or raises.                           *)
(***************************************************************************)
EXTENDS Naturals, Sequences, FiniteSets

\* ------------------------------------------------------------------ bounds
MaxConns == 2       \* client connections made over a run
MaxLen == 3         \* largest frame length a peer declares
MaxByte == 2        \* payload bytes are drawn from 0..MaxByte
NumLayers == 2      \* layer steps in the shard loaded at start-up

\* ------------------------------------------------------- program constants
HeaderLen == 4      \* client_socket.recv(4), struct '>I'
ChunkSize == 2048   \* min(data_size - bytes_recd, 2048)
Backlog == 5        \* server.listen(5)

Conns == 1..MaxConns
Bytes == 0..MaxByte

Min(a, b) == IF a < b THEN a ELSE b

\* All byte strings of length lo..hi over Bytes.
BSeq(lo, hi) == UNION {[1..m -> Bytes] : m \in lo..hi}

\* Frame lengths a peer declares: the short ones, and one that is longer than
\* a single recv of the payload loop may return.
BigLen == ChunkSize + 1
FrameLens == (0..MaxLen) \cup {BigLen}

\* What recv(want) may return: b'' at end of stream, or 1..want bytes. Short
\* reads are enumerated in full; a long one returns zero bytes, all that was
\* asked for or one byte fewer.
Zeros(k) == [i \in 1..k |-> 0]
Recv(want) ==
    IF want <= MaxLen THEN BSeq(0, want)
    ELSE {<<>>, Zeros(want - 1), Zeros(want)}

\* b is a proper prefix of s, possibly empty.
ProperPrefixes(s) == {SubSeq(s, 1, k) : k \in 0..(Len(s) - 1)}

\* ------------------------------------------------------------ struct '>I'
\* struct.pack('>I', n): four bytes, most significant first.
pack(n) ==
    <<(n \div 16777216) % 256, (n \div 65536) % 256, (n \div 256) % 256, n % 256>>

\* struct.unpack('>I', b)[0] for a 4-byte b.
unpack(b) == b[1] * 16777216 + b[2] * 65536 + b[3] * 256 + b[4]

\* ------------------------------------------------------------- tensors
\* None is the empty tuple, a tensor is a one-element tuple of its value.
None == <<>>
IsNone(x) == x = <<>>

\* x.to(device).half(): reduced precision keeps even values only.
half(x) == <<(x[1] \div 2) * 2>>

\* ---------------------------------------------------------------- pickle
\* pickle.loads(data), as a deterministic partial decoder of byte strings:
\*   fewer than 3 bytes        -> raises (ran out of input)
\*   first byte 0              -> raises (invalid load key)
\*   first byte 1              -> an object that is not an 8-tuple
\*   first byte >= 2           -> the 8-tuple read from bytes 1..3
\* bytes after the third are ignored, as pickle ignores data after STOP.
loads_ok(data) == Len(data) >= 3 /\ data[1] # 0

loads(data) ==
    IF data[1] = 1
    THEN <<<<data[3]>>>>
    ELSE << <<data[1] + data[3]>>,                               \* hidden_states
            IF data[2] = 0 THEN None ELSE <<data[2]>>,           \* causal_mask
            <<2>>,                                               \* position_ids
            IF data[3] = 0 THEN None ELSE <<data[3]>>,           \* past_key_values
            data[3] % 2 = 1,                                     \* output_attentions
            data[2] % 2 = 0,                                     \* use_cache
            <<4>>,                                               \* cache_position
            IF (data[2] \div 2) % 2 = 0 THEN <<6, 8>> ELSE None  \* position_embeddings
         >>

\* pickle.dumps(output) of the 3-tuple (hidden_states, cache entry, past_key_values):
\* an arity byte followed by the fields' values.
dumps(output) == <<Len(output)>> \o output[1] \o output[2] \o output[3]

\* ----------------------------------------------------------- decoder layer
\* decoder_layer(hidden_states, ...) of layer i: a tuple holding the new
\* hidden state, then the attention weights when output_attentions, then the
\* layer's cache entry when use_cache.
decoder_layer(i, hidden_states, past_key_values, output_attentions, use_cache) ==
    << <<(hidden_states[1] + i) % 8>> >>
    \o (IF output_attentions THEN << <<i>> >> ELSE <<>>)
    \o (IF use_cache THEN << <<i, past_key_values[1]>> >> ELSE <<>>)

\* ------------------------------------------------------------------ state
VARIABLES
    sup,        \* start_server's position: Unbound, Bound, Accepting, Handling, Failed
    servers,    \* listening sockets the worker holds open
    portFree,   \* bind and listen on host:port succeed
    backlog,    \* connections queued on the listening socket, oldest first
    cur,        \* the connection passed to handle_client, 0 when none
    worker,     \* the server object's fields: host, port, device, layer sequence
    conns       \* per connection: its socket, the handler's position and locals

vars == <<sup, servers, portFree, backlog, cur, worker, conns>>

\* A connection before accept: no handler frame, nothing on the wire.
Blank ==
    [st |-> "none", pc |-> "idle", outcome |-> "",
     rx |-> <<>>, eof |-> FALSE, tx |-> <<>>,
     data_size |-> 0, asked |-> 0, chunks |-> <<>>, input_data |-> <<>>,
     hidden_states |-> None, causal_mask |-> None, position_ids |-> None,
     past_key_values |-> None, output_attentions |-> FALSE, use_cache |-> FALSE,
     cache_position |-> None, position_embeddings |-> None,
     idx |-> 0, calls |-> <<>>, has_cache |-> FALSE, next_decoder_cache |-> <<>>,
     has_output |-> FALSE, output |-> <<>>, result |-> <<>>,
     err |-> "", failedIn |-> "", stalled |-> FALSE]

\* __init__: the fields set from the arguments and the loaded layer sequence;
\* layer i of the shard is the step "add i".
LoadedWorker ==
    [host |-> "0.0.0.0", port |-> 8765, device |-> "cuda",
     transformer_layers_split |-> [i \in 1..NumLayers |-> i]]

Init ==
    /\ worker = LoadedWorker
    /\ sup = "Unbound"
    /\ servers = 0
    /\ portFree \in BOOLEAN
    /\ backlog = <<>>
    /\ cur = 0
    /\ conns = [c \in Conns |-> Blank]

\* The state of the connection's handler in the handler's state machine.
HandlerState(r) ==
    CASE r.st = "closed" -> "Closed"
      [] r.st # "open" -> "None"
      [] r.pc \in {"recv_header", "recv_payload"} -> "Reading"
      [] r.pc = "decode" -> "Decoding"
      [] r.pc \in {"unpack", "layer", "build"} -> "Executing"
      [] r.pc = "encode" -> "Encoding"
      [] r.pc \in {"send_header", "send_payload"} -> "Writing"
      [] OTHER -> "Closing"

bytes_recd(r) == Len(r.chunks)

\* ------------------------------------------------------------ environment
\* A client connects while the socket is listening and the backlog has room.
Connect(c) ==
    /\ sup \in {"Accepting", "Handling"}
    /\ conns[c].st = "none"
    /\ \A d \in Conns : d < c => conns[d].st # "none"
    /\ Len(backlog) < Backlog
    /\ backlog' = Append(backlog, c)
    /\ conns' = [conns EXCEPT ![c].st = "queued"]
    /\ UNCHANGED <<worker, sup, servers, portFree, cur>>

\* Another process takes the port while the worker is not listening on it.
PortTaken ==
    /\ portFree
    /\ sup \in {"Unbound", "Bound", "Failed"}
    /\ portFree' = FALSE
    /\ UNCHANGED <<worker, sup, servers, backlog, cur, conns>>

\* The peer of the connection being handled goes silent for good while the
\* handler is in a socket call: it sends nothing more, takes nothing more off
\* a full receive window, and does not close.
Stall(c) ==
    /\ conns[c].st = "open"
    /\ conns[c].pc \in {"recv_header", "recv_payload", "send_header", "send_payload"}
    /\ ~conns[c].stalled
    /\ conns' = [conns EXCEPT ![c].stalled = TRUE]
    /\ UNCHANGED <<worker, sup, servers, portFree, backlog, cur>>

PortFreed ==
    /\ ~portFree
    /\ portFree' = TRUE
    /\ UNCHANGED <<worker, sup, servers, backlog, cur, conns>>

\* ------------------------------------------------------------ start_server
\* Variant: the listening socket is created without a with block, so an
\* exception leaves it open.
ServerError_Leak ==
    /\ sup' = "Failed"
    /\ backlog' = <<>>
    /\ conns' = [c \in Conns |->
                    IF conns[c].st = "queued" THEN [conns[c] EXCEPT !.st = "reset"]
                    ELSE conns[c]]
    /\ UNCHANGED <<worker, servers, portFree, cur>>

\* An exception leaves the with block: the listening socket is closed, the
\* connections still queued on it are reset, and the except clause is entered.
ServerError ==
    /\ sup' = "Failed"
    /\ servers' = servers - 1
    /\ backlog' = <<>>
    /\ conns' = [c \in Conns |->
                    IF conns[c].st = "queued" THEN [conns[c] EXCEPT !.st = "reset"]
                    ELSE conns[c]]
    /\ UNCHANGED <<worker, portFree, cur>>

\* socket(), setsockopt(SO_REUSEADDR), bind((host, port)).
Bind ==
    /\ sup = "Unbound"
    /\ \/ /\ portFree
          /\ sup' = "Bound"
          /\ servers' = servers + 1
          /\ UNCHANGED <<worker, portFree, backlog, cur, conns>>
       \/ /\ ~portFree
          /\ sup' = "Failed"
          /\ UNCHANGED <<worker, servers, portFree, backlog, cur, conns>>

\* server.listen(5).
Listen ==
    /\ sup = "Bound"
    /\ \/ /\ portFree
          /\ sup' = "Accepting"
          /\ UNCHANGED <<worker, servers, portFree, backlog, cur, conns>>
       \/ /\ ~portFree
          /\ ServerError

\* server.accept() returns the oldest queued connection and handle_client is
\* called with it.
Accept ==
    /\ sup = "Accepting"
    /\ backlog # <<>>
    /\ sup' = "Handling"
    /\ cur' = Head(backlog)
    /\ backlog' = Tail(backlog)
    /\ conns' = [conns EXCEPT ![Head(backlog)] =
                    [@ EXCEPT !.st = "open", !.pc = "recv_header"]]
    /\ UNCHANGED <<worker, servers, portFree>>

\* server.accept() raises.
AcceptFail ==
    /\ sup = "Accepting"
    /\ ServerError

\* Variant: the handler is started on a thread of its own and the accept loop
\* goes on at once.
HandleReturn_Spawn ==
    /\ sup = "Handling"
    /\ sup' = "Accepting"
    /\ cur' = 0
    /\ UNCHANGED <<worker, servers, portFree, backlog, conns>>

\* handle_client has returned: back to the top of the accept loop.
HandleReturn ==
    /\ sup = "Handling"
    /\ conns[cur].pc = "returned"
    /\ sup' = "Accepting"
    /\ cur' = 0
    /\ UNCHANGED <<worker, servers, portFree, backlog, conns>>

\* Variant: the except clause logs and leaves start_server.
Restart_Exit ==
    /\ sup = "Failed"
    /\ sup' = "Terminated"
    /\ UNCHANGED <<worker, servers, portFree, backlog, cur, conns>>

\* except Exception: print, traceback; the outer while True starts over.
Restart ==
    /\ sup = "Failed"
    /\ sup' = "Unbound"
    /\ UNCHANGED <<worker, servers, portFree, backlog, cur, conns>>

\* ----------------------------------------------------------- handle_client
Others == <<sup, servers, portFree, backlog, cur, worker>>

\* The handler's frame of connection c becomes r.
Step(c, r) ==
    /\ conns' = [conns EXCEPT ![c] = r]
    /\ UNCHANGED Others

\* The handler's frame is dropped when handle_client returns; the socket
\* object stays closed.
Closed(r) ==
    [Blank EXCEPT !.st = "closed", !.pc = "returned",
                  !.outcome = IF r.err = "" THEN "replied" ELSE "failed"]

\* Variant: handle_client without its except clause. The finally clause closes
\* the socket and the exception reaches start_server's handler.
Raise_Uncaught(c, r, kind) ==
    /\ sup' = "Failed"
    /\ servers' = servers - 1
    /\ backlog' = <<>>
    /\ conns' = [d \in Conns |->
                    IF d = c THEN Closed([r EXCEPT !.err = kind])
                    ELSE IF conns[d].st = "queued" THEN [conns[d] EXCEPT !.st = "reset"]
                    ELSE conns[d]]
    /\ UNCHANGED <<worker, portFree, cur>>

\* Variant: the except clause answers with an error frame before closing.
Raise_ErrorFrame(c, r, kind) ==
    Step(c, [r EXCEPT !.pc = "finally", !.err = kind,
                      !.failedIn = HandlerState(conns[c]),
                      !.tx = @ \o pack(1) \o <<0>>])

\* An exception raised at the handler's position: except Exception prints it
\* and control passes to the finally clause.
Raise(c, r, kind) ==
    Step(c, [r EXCEPT !.pc = "finally", !.err = kind,
                      !.failedIn = HandlerState(conns[c])])

At(c, pc) == conns[c].st = "open" /\ conns[c].pc = pc

\* Variant: the socket has a timeout, and a call that waits on a silent peer
\* raises it.
io_wait_timeout(c, r) == Raise(c, r, "timeout")

\* recv or sendall on a peer that has gone silent. The socket is the blocking
\* socket accept() returned, no timeout is set on it, and the call does not
\* return.
io_wait(c, r) == FALSE

\* while bytes_recd < data_size
loop_pc(r) == IF bytes_recd(r) < r.data_size THEN "recv_payload" ELSE "decode"

\* data_size = struct.unpack('>I', client_socket.recv(4))[0]
\* recv returns up to 4 bytes of the peer's header, or b'' at end of stream.
RecvHeader(c) ==
    /\ At(c, "recv_header")
    /\ IF conns[c].stalled THEN io_wait(c, conns[c])
       ELSE \E n \in FrameLens, k \in 0..HeaderLen :
             LET chunk == SubSeq(pack(n), 1, k)
                 r == [conns[c] EXCEPT !.rx = chunk, !.eof = (k = 0)]
             IN  IF Len(chunk) = HeaderLen
                 THEN LET r2 == [r EXCEPT !.data_size = unpack(chunk)]
                      IN  Step(c, [r2 EXCEPT !.pc = loop_pc(r2)])
                 ELSE Raise(c, r, "struct.error")

\* Variant: an empty chunk ends the loop instead of raising.
on_chunk_break(c, r, chunk) ==
    IF chunk = <<>>
    THEN Step(c, [r EXCEPT !.eof = TRUE, !.pc = "decode"])
    ELSE LET r2 == [r EXCEPT !.chunks = @ \o chunk, !.rx = @ \o chunk]
         IN  Step(c, [r2 EXCEPT !.pc = loop_pc(r2)])

\* Variant: an empty chunk is skipped and the loop tries again.
on_chunk_spin(c, r, chunk) ==
    IF chunk = <<>>
    THEN Step(c, [r EXCEPT !.eof = TRUE])
    ELSE LET r2 == [r EXCEPT !.chunks = @ \o chunk, !.rx = @ \o chunk]
         IN  Step(c, [r2 EXCEPT !.pc = loop_pc(r2)])

\* The loop body after recv: an empty chunk raises "socket connection broken",
\* any other is appended and counted; then the loop condition is tested again.
on_chunk(c, r, chunk) ==
    IF chunk = <<>>
    THEN Raise(c, [r EXCEPT !.eof = TRUE], "RuntimeError")
    ELSE LET r2 == [r EXCEPT !.chunks = @ \o chunk, !.rx = @ \o chunk]
         IN  Step(c, [r2 EXCEPT !.pc = loop_pc(r2)])

\* Variant: every recv of the loop asks for a full 2048 bytes.
want_fixed(r) == ChunkSize

\* min(data_size - bytes_recd, 2048), the size the next recv asks for.
want(r) == Min(r.data_size - bytes_recd(r), ChunkSize)

\* chunk = client_socket.recv(min(data_size - bytes_recd, 2048)): the peer's
\* next bytes, at most as many as asked for, or b'' at end of stream.
RecvPayload(c) ==
    /\ At(c, "recv_payload")
    /\ IF conns[c].stalled THEN io_wait(c, conns[c])
       ELSE LET r == [conns[c] EXCEPT !.asked = want(conns[c])]
            IN  \E chunk \in Recv(r.asked) : on_chunk(c, r, chunk)

\* data = b''.join(chunks); input_data = pickle.loads(data)
\* The size asked of the last recv is a temporary of the loop and is gone.
Decode(c) ==
    /\ At(c, "decode")
    /\ LET r == [conns[c] EXCEPT !.asked = 0]
           data == r.chunks
       IN  IF loads_ok(data)
           THEN Step(c, [r EXCEPT !.input_data = loads(data), !.pc = "unpack"])
           ELSE Raise(c, r, "UnpicklingError")

\* for decoder_layer in self.transformer_layers_split
\* Variant: the loop stops after the first layer of the shard.
layer_pc_once(i) == IF i <= 1 THEN "layer" ELSE "build"

layer_pc(i) == IF i <= Len(worker.transformer_layers_split) THEN "layer" ELSE "build"

\* The 8-way unpacking of input_data and the moves to the device in half
\* precision; then the branch on position_embeddings.
Unpack(c) ==
    /\ At(c, "unpack")
    /\ LET r == conns[c]
           t == r.input_data
       IN  IF Len(t) # 8
           THEN Raise(c, r, "ValueError")
           ELSE IF IsNone(t[1]) \/ IsNone(t[3]) \/ IsNone(t[4]) \/ IsNone(t[7])
           THEN Raise(c, r, "AttributeError")
           ELSE \/ Step(c, [r EXCEPT
                        !.hidden_states = half(t[1]),
                        !.causal_mask = IF IsNone(t[2]) THEN None ELSE half(t[2]),
                        !.position_ids = half(t[3]),
                        !.past_key_values = half(t[4]),
                        !.output_attentions = t[5],
                        !.use_cache = t[6],
                        !.cache_position = half(t[7]),
                        !.position_embeddings = t[8],
                        !.idx = 1,
                        !.pc = IF IsNone(t[8]) THEN "encode" ELSE layer_pc(1)])
                \/ Raise(c, r, "DeviceError")

\* The arguments of one decoder_layer call, as the loop passes them.
call_args(r, layer) ==
    [layer |-> layer,
     hidden_states |-> r.hidden_states,
     attention_mask |-> r.causal_mask,
     position_ids |-> r.position_ids,
     past_key_value |-> r.past_key_values,
     output_attentions |-> r.output_attentions,
     use_cache |-> r.use_cache,
     cache_position |-> r.cache_position,
     position_embeddings |-> r.position_embeddings]

\* Variant: the cache entry of the first layer is kept, later ones are dropped.
after_layer_first(r, layer_outputs) ==
    [r EXCEPT
        !.hidden_states = layer_outputs[1],
        !.has_cache = @ \/ r.use_cache,
        !.next_decoder_cache =
            IF r.use_cache /\ ~r.has_cache
            THEN layer_outputs[IF r.output_attentions THEN 3 ELSE 2]
            ELSE @,
        !.idx = @ + 1,
        !.pc = layer_pc(r.idx + 1)]

\* The statements after the call: hidden_states = layer_outputs[0], and under
\* use_cache next_decoder_cache = layer_outputs[2 if output_attentions else 1].
after_layer(r, layer_outputs) ==
    [r EXCEPT
        !.hidden_states = layer_outputs[1],
        !.has_cache = @ \/ r.use_cache,
        !.next_decoder_cache =
            IF r.use_cache
            THEN layer_outputs[IF r.output_attentions THEN 3 ELSE 2]
            ELSE @,
        !.idx = @ + 1,
        !.pc = layer_pc(r.idx + 1)]

\* Variant: the layer keeps a running state of its own, so a call changes the
\* layer object held in the worker's layer sequence.
Layer_Stateful(c) ==
    /\ At(c, "layer")
    /\ LET r == conns[c]
           layer == worker.transformer_layers_split[r.idx]
           called == [r EXCEPT !.calls = Append(@, call_args(r, layer))]
           layer_outputs == decoder_layer(layer, r.hidden_states, r.past_key_values,
                                          r.output_attentions, r.use_cache)
       IN  /\ conns' = [conns EXCEPT ![c] = after_layer(called, layer_outputs)]
           /\ worker' = [worker EXCEPT !.transformer_layers_split[r.idx] = @ + 1]
           /\ UNCHANGED <<sup, servers, portFree, backlog, cur>>

\* One iteration of the layer loop: the call of the next layer of the shard,
\* which returns or raises, and the statements after it. calls records the
\* invocations made for this request.
Layer(c) ==
    /\ At(c, "layer")
    /\ LET r == conns[c]
           layer == worker.transformer_layers_split[r.idx]
           called == [r EXCEPT !.calls = Append(@, call_args(r, layer))]
           layer_outputs == decoder_layer(layer, r.hidden_states, r.past_key_values,
                                          r.output_attentions, r.use_cache)
       IN  \/ Step(c, after_layer(called, layer_outputs))
           \/ Raise(c, called, "ComputeError")

\* output = (hidden_states, next_decoder_cache, past_key_values)
\* next_decoder_cache is bound only if some iteration ran with use_cache.
Build(c) ==
    /\ At(c, "build")
    /\ LET r == conns[c]
       IN  IF r.has_cache
           THEN Step(c, [r EXCEPT
                    !.output = <<r.hidden_states, r.next_decoder_cache, r.past_key_values>>,
                    !.has_output = TRUE,
                    !.pc = "encode"])
           ELSE Raise(c, r, "UnboundLocalError")

\* result = pickle.dumps(output); result_size = len(result)
\* output is bound only if the position_embeddings branch was taken.
Encode(c) ==
    /\ At(c, "encode")
    /\ LET r == conns[c]
       IN  IF r.has_output
           THEN Step(c, [r EXCEPT !.result = dumps(r.output), !.pc = "send_header"])
           ELSE Raise(c, r, "UnboundLocalError")

\* client_socket.sendall(struct.pack('>I', result_size)): all four bytes are
\* written, or the call raises after writing fewer.
SendHeader(c) ==
    /\ At(c, "send_header")
    /\ IF conns[c].stalled THEN io_wait(c, conns[c])
       ELSE LET r == conns[c]
                header == pack(Len(r.result))
            IN  \/ Step(c, [r EXCEPT !.tx = @ \o header, !.pc = "send_payload"])
                \/ \E part \in ProperPrefixes(header) :
                     Raise(c, [r EXCEPT !.tx = @ \o part], "OSError")

\* Variant: the handler loops back for another request on the same connection.
SendPayload_KeepAlive(c) ==
    /\ At(c, "send_payload")
    /\ IF conns[c].stalled THEN io_wait(c, conns[c])
       ELSE LET r == conns[c]
            IN  \/ Step(c, [r EXCEPT !.tx = @ \o r.result, !.pc = "recv_header"])
                \/ \E part \in ProperPrefixes(r.result) :
                     Raise(c, [r EXCEPT !.tx = @ \o part], "OSError")

\* client_socket.sendall(result)
SendPayload(c) ==
    /\ At(c, "send_payload")
    /\ IF conns[c].stalled THEN io_wait(c, conns[c])
       ELSE LET r == conns[c]
            IN  \/ Step(c, [r EXCEPT !.tx = @ \o r.result, !.pc = "finally"])
                \/ \E part \in ProperPrefixes(r.result) :
                     Raise(c, [r EXCEPT !.tx = @ \o part], "OSError")

\* Variant: close() at the end of the try body instead of in a finally clause.
Finally_CloseOnSuccess(c) ==
    /\ At(c, "finally")
    /\ Step(c, [Closed(conns[c]) EXCEPT
                    !.st = IF conns[c].err = "" THEN "closed" ELSE "open"])

\* finally: client_socket.close(); handle_client returns and its locals go.
Finally(c) ==
    /\ At(c, "finally")
    /\ Step(c, Closed(conns[c]))

Handler(c) ==
    \/ RecvHeader(c) \/ RecvPayload(c) \/ Decode(c) \/ Unpack(c) \/ Layer(c)
    \/ Build(c) \/ Encode(c) \/ SendHeader(c) \/ SendPayload(c) \/ Finally(c)

Supervisor ==
    \/ Bind \/ Listen \/ Accept \/ AcceptFail \/ HandleReturn \/ Restart

Environment ==
    \/ PortTaken \/ PortFreed \/ \E c \in Conns : Connect(c) \/ Stall(c)

Next ==
    \/ Supervisor
    \/ \E c \in Conns : Handler(c)
    \/ Environment

Spec == Init /\ [][Next]_vars

\* start_server is one thread that is never descheduled for good: a step of
\* its own (bind, listen, the except clause) that stays possible is taken.
\* handle_client runs on the thread that called it and start_server goes on
\* when it returns: a handler step that can be taken is taken.
LiveSpec ==
    /\ Spec
    /\ \A c \in Conns : WF_vars(Handler(c))
    /\ WF_vars(HandleReturn)

FairSpec == Spec /\ WF_vars(Bind) /\ WF_vars(Listen) /\ WF_vars(Restart)

\* ================================================================= claims
Open == {c \in Conns : conns[c].st = "open"}

IsPrefix(p, q) == Len(p) <= Len(q) /\ p = SubSeq(q, 1, Len(p))

\* The response frame of a handler that has encoded its result.
Frame(r) == pack(Len(r.result)) \o r.result

\* C1: connections are handled one at a time in accept order. At most one
\* accepted connection has its socket open; accept takes the oldest queued
\* connection and only when no accepted connection is still open; a byte of
\* a connection is read only while no other accepted connection is open.
C1_SerialInAcceptOrder ==
    [][ /\ Cardinality({c \in Conns : conns'[c].st = "open"}) <= 1
        /\ \A c \in Conns :
              (conns[c].st # "open" /\ conns'[c].st = "open") =>
                  /\ Open = {}
                  /\ conns[c].st = "queued"
                  /\ \A d \in Conns : conns[d].st = "queued" => c <= d
        /\ \A b \in Conns :
              (conns'[b].rx # conns[b].rx /\ conns'[b].rx # <<>>) =>
                  Open \subseteq {b}
      ]_vars

\* C1 witness: B is queued while A's handler is in Executing.
C1_Witness ==
    \E a, b \in Conns :
        /\ HandlerState(conns[a]) = "Executing"
        /\ conns[b].st = "queued"

\* C2: a step of a connection's handler, failing or not, leaves the listener
\* alone: start_server stays inside the same handle_client call on the same
\* listening socket with the same backlog; the supervisor becomes Failed only
\* from bind, listen or accept; and once the handler of a failed connection
\* has returned the accept loop can go on.
C2_ErrorsContained ==
    [][ /\ \A c \in Conns :
              (conns[c].st = "open" /\ conns'[c] # conns[c]) =>
                  /\ sup = "Handling" /\ sup' = "Handling"
                  /\ servers' = servers
                  /\ backlog' = backlog
                  /\ cur' = cur
        /\ (sup' = "Failed" /\ sup # "Failed") =>
              sup \in {"Unbound", "Bound", "Accepting"}
        /\ (sup' = "Accepting" /\ sup = "Handling") => conns[cur].st = "closed"
      ]_vars

\* C2 witness: a connection has failed, the socket is still the one listening
\* socket, and a later connection has got as far as writing its response.
C2_Witness ==
    \E a, b \in Conns :
        /\ conns[a].outcome = "failed"
        /\ a < b
        /\ HandlerState(conns[b]) = "Writing"
        /\ servers = 1

\* C3 as stated: whatever the state the handler failed in, no response byte
\* has been written when the connection is closed.
C3_NoBytesOnAnyFailure ==
    \A c \in Conns :
        (conns[c].pc = "finally" /\ conns[c].err # "") => Len(conns[c].tx) = 0

\* C3 amended: a handler that failed in Reading, Decoding, Executing or
\* Encoding has written nothing; one that failed in Writing has written a
\* proper prefix of its response frame, never the whole frame.
C3_NoBytesBeforeWriting ==
    \A c \in Conns :
        LET r == conns[c] IN
        (r.pc = "finally" /\ r.err # "") =>
            /\ r.failedIn \in {"Reading", "Decoding", "Executing", "Encoding", "Writing"}
            /\ r.failedIn # "Writing" => Len(r.tx) = 0
            /\ r.failedIn = "Writing" =>
                  /\ IsPrefix(r.tx, Frame(r))
                  /\ Len(r.tx) < Len(Frame(r))

\* C3 witness: the payload send failed after the header and part of the
\* payload had gone out.
C3_Witness ==
    \E c \in Conns :
        /\ conns[c].pc = "finally"
        /\ conns[c].failedIn = "Writing"
        /\ Len(conns[c].tx) > HeaderLen

\* C4: the accepted socket is closed on every exit path. A handler that has
\* returned has closed its socket; whenever start_server is at accept() no
\* accepted socket is open; and a closed connection never changes again.
C4_SocketReleased ==
    [][ /\ \A c \in Conns : conns'[c].pc = "returned" => conns'[c].st = "closed"
        /\ sup' = "Accepting" => \A c \in Conns : conns'[c].st # "open"
        /\ \A c \in Conns : conns[c].st = "closed" => conns'[c] = conns[c]
      ]_vars

\* C4 witness: back at accept() after a connection whose handling failed.
C4_Witness ==
    /\ sup = "Accepting"
    /\ \E c \in Conns : conns[c].st = "closed" /\ conns[c].outcome = "failed"

\* C5 as stated: a decodable request whose position_embeddings is absent
\* never brings the handler to the encode step with the response unassigned;
\* it ends in a response or in an explicit missing-field error.
C5_AbsentEmbeddingsHandled ==
    \A c \in Conns :
        LET r == conns[c] IN
        (r.st = "open" /\ Len(r.input_data) = 8 /\ IsNone(r.input_data[8])) =>
            /\ r.pc = "encode" => r.has_output
            /\ r.err \in {"", "ValueError", "AttributeError", "DeviceError",
                          "MissingRequiredFieldError", "OSError"}

\* C6 as stated: a request with position_embeddings present whose layer steps
\* have all succeeded gets a response, with next_cache the captured entry
\* under use_cache and the absent marker otherwise.
C6_NextCacheOrAbsent ==
    \A c \in Conns :
        LET r == conns[c] IN
        (r.st = "open" /\ r.idx = NumLayers + 1 /\ ~IsNone(r.position_embeddings)
            /\ r.pc \in {"encode", "send_header", "send_payload", "finally"}
            /\ r.failedIn # "Writing") =>
            /\ r.err = ""
            /\ r.has_output
            /\ r.output[2] = IF r.use_cache THEN r.next_decoder_cache ELSE None

\* The peer closed the stream before the handler had received the declared
\* number of payload bytes.
Truncated(r) == r.eof

\* C7: the handler gets past the read step only with a payload of exactly the
\* declared length, all of it received from the peer; a stream that ends
\* early fails the read step, with the truncation error once the header was
\* read, and nothing is decoded or executed.
C7_TruncationDetected ==
    \A c \in Conns :
        LET r == conns[c] IN
        r.st = "open" =>
            /\ (r.pc \notin {"recv_header", "recv_payload"} /\ r.failedIn # "Reading") =>
                  /\ Len(r.chunks) = r.data_size
                  /\ r.rx = pack(r.data_size) \o r.chunks
                  /\ ~Truncated(r)
            /\ Truncated(r) =>
                  /\ r.pc = "finally"
                  /\ r.failedIn = "Reading"
                  /\ r.input_data = <<>>
                  /\ r.idx = 0
                  /\ r.err = IF Len(r.rx) >= HeaderLen THEN "RuntimeError"
                             ELSE "struct.error"

\* C7 witness: the header and part of the declared payload arrived, then the
\* peer closed.
C7_Witness ==
    \E c \in Conns :
        /\ conns[c].eof
        /\ Len(conns[c].rx) > HeaderLen
        /\ Len(conns[c].rx) < HeaderLen + conns[c].data_size

\* C8 as stated: a frame (header len(b), then b) is read back as b however the
\* stream is split into recv chunks, so the read step fails only on a stream
\* that ended early; and the response goes out header first, the header
\* holding the length of the serialized payload.
C8_FrameRoundTrip ==
    \A c \in Conns :
        LET r == conns[c] IN
        r.st = "open" =>
            /\ r.failedIn = "Reading" => r.eof
            /\ r.pc = "decode" => r.rx = pack(Len(r.chunks)) \o r.chunks
            /\ IsPrefix(r.tx, Frame(r))

\* C9: a failure of bind, listen or accept never ends start_server: from
\* Failed the only step is back to Unbound, where the whole sequence starts
\* over; and if from some point on the port stays free, every failure is
\* followed by the supervisor listening and accepting again.
C9_RestartOnListenerFailure ==
    /\ [][ /\ sup = "Failed" => sup' \in {"Failed", "Unbound"}
           /\ sup' \in {"Unbound", "Bound", "Accepting", "Handling", "Failed"}
         ]_vars
    /\ [](sup = "Failed" => servers = 0)
    /\ (<>[]portFree) => [](sup = "Failed" => <>(sup = "Accepting"))

\* C9 witness: the supervisor is accepting again on a new listening socket
\* after a listener failure that reset a queued connection.
C9_Witness ==
    /\ sup = "Accepting"
    /\ servers = 1
    /\ \E c \in Conns : conns[c].st = "reset"

\* C10: one request and one response per connection. The handler never reads
\* past the one frame the header declares and reads nothing once the read
\* step is over; what it writes is a prefix of its one response frame; as
\* soon as the frame is written in full, or an error is raised, the handler
\* is at close(), and a failed handler has not sent a whole response.
C10_OneExchangePerConnection ==
    [][ /\ \A c \in Conns :
          LET r == conns'[c] IN
          r.st = "open" =>
            /\ Len(r.rx) <= HeaderLen + r.data_size
            /\ (conns[c].st = "open" /\ conns[c].pc \notin {"recv_header", "recv_payload"})
                  => r.rx = conns[c].rx
            /\ IsPrefix(r.tx, Frame(r))
            /\ (r.result # <<>> /\ r.tx = Frame(r)) => (r.pc = "finally" /\ r.err = "")
            /\ r.err # "" => (r.pc = "finally" /\ r.tx # Frame(r))
        /\ \A c \in Conns :
              (conns[c].pc = "finally" /\ conns'[c] # conns[c]) => conns'[c].st = "closed"
      ]_vars

\* C10 witness: the whole response frame has been written and the handler is
\* at close().
C10_Witness ==
    \E c \in Conns :
        /\ conns[c].pc = "finally"
        /\ conns[c].err = ""
        /\ conns[c].result # <<>>
        /\ conns[c].tx = Frame(conns[c])

\* The hidden state after the first k layers of a shard, from the converted
\* input h, computed from the request alone.
RECURSIVE Threaded(_, _, _, _, _, _)
Threaded(layers, k, h, pkv, oa, uc) ==
    IF k = 0 THEN h
    ELSE decoder_layer(layers[k], Threaded(layers, k - 1, h, pkv, oa, uc), pkv, oa, uc)[1]

\* The serialized response to the request bytes data under a shard, when the
\* request is one that is answered.
ExpectedResult(data, layers) ==
    LET t == loads(data)
        n == Len(layers)
        h == half(t[1])
        pkv == half(t[4])
        last == decoder_layer(layers[n], Threaded(layers, n - 1, h, pkv, t[5], t[6]),
                              pkv, t[5], t[6])
    IN  dumps(<<last[1], last[IF t[5] THEN 3 ELSE 2], pkv>>)

\* The error the request bytes themselves lead to, "" when they lead to none.
ExpectedError(data) ==
    IF ~loads_ok(data) THEN "UnpicklingError"
    ELSE IF Len(loads(data)) # 8 THEN "ValueError"
    ELSE IF IsNone(loads(data)[4]) THEN "AttributeError"
    ELSE IF IsNone(loads(data)[8]) \/ ~loads(data)[6] THEN "UnboundLocalError"
    ELSE ""

\* Failures of the surroundings of a request: the device, a layer call, a send.
EnvErrors == {"DeviceError", "ComputeError", "OSError"}

\* C11: the worker's fields are never changed after start-up, and the outcome
\* of a connection is a function of its own frame and the loaded shard: once
\* the frame is read, the error (unless the device, a layer or a send failed)
\* is the one its bytes lead to, and a reply is the response computed from
\* its bytes alone, whatever was handled on earlier connections.
C11_Stateless ==
    /\ worker = LoadedWorker
    /\ \A c \in Conns :
        LET r == conns[c] IN
        (r.pc = "finally" /\ r.failedIn # "Reading") =>
            /\ r.err \notin EnvErrors => r.err = ExpectedError(r.chunks)
            /\ r.err \in EnvErrors => ExpectedError(r.chunks) \in {"", "UnboundLocalError"}
            /\ r.err = "" =>
                  LET e == ExpectedResult(r.chunks, LoadedWorker.transformer_layers_split)
                  IN  r.tx = pack(Len(e)) \o e

\* C11 witness: a reply is complete on a connection accepted after another
\* connection was answered.
C11_Witness ==
    \E a, b \in Conns :
        /\ a < b
        /\ conns[a].outcome = "replied"
        /\ conns[b].pc = "finally"
        /\ conns[b].err = ""

\* C12 as stated: the third field of every response is, by value, the
\* past_key_values field of the request received on the connection.
C12_CachePassedThrough ==
    \A c \in Conns :
        LET r == conns[c] IN
        (r.st = "open" /\ r.has_output) => r.output[3] = r.input_data[4]

\* What the call recorded as k returned.
Returned(k) ==
    decoder_layer(k.layer, k.hidden_states, k.past_key_value,
                  k.output_attentions, k.use_cache)

\* C13 as stated: for every request the layer steps of the shard are applied
\* in their order, each once; each step gets the hidden state the step before
\* returned, and the other arguments as the first step got them; the response
\* holds the last step's hidden state; after a failed step none is invoked.
C13_LayersThreadedInOrder ==
    \A c \in Conns :
        LET r == conns[c]
            layers == worker.transformer_layers_split
            n == Len(r.calls)
        IN
        r.st = "open" =>
            /\ n <= Len(layers)
            /\ \A i \in 1..n : r.calls[i].layer = layers[i]
            /\ \A i \in 1..n :
                  /\ r.calls[i].hidden_states =
                        IF i = 1 THEN half(r.input_data[1]) ELSE Returned(r.calls[i - 1])[1]
                  /\ [r.calls[i] EXCEPT !.layer = 0, !.hidden_states = None]
                        = [r.calls[1] EXCEPT !.layer = 0, !.hidden_states = None]
            /\ (r.pc \in {"build", "encode", "send_header", "send_payload"}
                    \/ (r.pc = "finally" /\ r.err \in {"", "OSError"})) =>
                  n = Len(layers)
            /\ r.has_output => r.output[1] = Returned(r.calls[n])[1]
            /\ r.err # "" => r.pc = "finally"

\* C14: under use_cache the response's next_cache is the one cache entry the
\* last layer step returned, the last element of that step's output (index 2
\* with output_attentions, index 1 without, counting from 0), and the entry
\* of no earlier step.
C14_LastLayerEntryWins ==
    \A c \in Conns :
        LET r == conns[c]
            n == Len(r.calls)
        IN
        (r.st = "open" /\ r.has_output /\ r.use_cache) =>
            /\ n = Len(worker.transformer_layers_split)
            /\ Len(Returned(r.calls[n])) = IF r.output_attentions THEN 3 ELSE 2
            /\ r.output[2] = Returned(r.calls[n])[Len(Returned(r.calls[n]))]
            /\ r.output[2] = <<r.calls[n].layer, r.past_key_values[1]>>
            /\ \A i \in 1..(n - 1) :
                  r.output[2] # Returned(r.calls[i])[Len(Returned(r.calls[i]))]

\* C14 witness: a response built after two or more layer steps with
\* use_cache and output_attentions set.
C14_Witness ==
    \E c \in Conns :
        /\ conns[c].has_output
        /\ conns[c].use_cache
        /\ conns[c].output_attentions
        /\ Len(conns[c].calls) >= 2

\* C15 as stated: the length is computed from the first 4 bytes of the
\* stream, and while fewer than 4 header bytes have arrived on a connection
\* that is still open the handler is still reading the header.
C15_HeaderReadInFull ==
    \A c \in Conns :
        LET r == conns[c] IN
        r.st = "open" =>
            /\ (r.pc # "recv_header" /\ Len(r.rx) >= HeaderLen) =>
                  r.data_size = unpack(SubSeq(r.rx, 1, HeaderLen))
            /\ (Len(r.rx) < HeaderLen /\ ~r.eof) => r.pc = "recv_header"

\* C16: a recv of the payload loop asks for no more than what is missing of
\* the declared length and no more than 2048 bytes, and gets no more than it
\* asked for; so 0 <= bytes_recd <= data_size, nothing beyond the frame is
\* consumed, and the handler is past the loop, with anything decoded, only
\* with the whole payload buffered.
C16_BoundedReads ==
    [][ \A c \in Conns :
          LET r == conns'[c] IN
          r.st = "open" =>
            /\ r.asked <= ChunkSize
            /\ bytes_recd(r) <= r.data_size
            /\ Len(r.rx) <= HeaderLen + r.data_size
            /\ (conns[c].st = "open" /\ r.chunks # conns[c].chunks) =>
                  /\ r.asked <= conns[c].data_size - bytes_recd(conns[c])
                  /\ r.asked >= 1
                  /\ bytes_recd(r) - bytes_recd(conns[c]) <= r.asked
                  /\ bytes_recd(r) > bytes_recd(conns[c])
            /\ (r.pc \notin {"recv_header", "recv_payload"} /\ r.failedIn # "Reading") =>
                  /\ bytes_recd(r) = r.data_size
                  /\ r.chunks = SubSeq(r.rx, HeaderLen + 1, Len(r.rx))
            /\ r.input_data # <<>> => bytes_recd(r) = r.data_size
      ]_vars

\* C16 witness: more than 2048 bytes were missing, a recv asked for 2048 and
\* the loop goes on for the rest.
C16_Witness ==
    \E c \in Conns :
        /\ conns[c].pc = "recv_payload"
        /\ conns[c].asked = ChunkSize
        /\ conns[c].data_size > ChunkSize
        /\ bytes_recd(conns[c]) >= ChunkSize - 1

\* The handler's states in the order the state machine lists them. The finally
\* clause (Closing) is the entry into Closed.
Rank(state) ==
    CASE state = "None" -> 0
      [] state = "Reading" -> 1
      [] state = "Decoding" -> 2
      [] state = "Executing" -> 3
      [] state = "Encoding" -> 4
      [] state = "Writing" -> 5
      [] state = "Closing" -> 6
      [] state = "Closed" -> 7

\* C17: a handler step stays in its state, moves to the next state of
\* Reading, Decoding, Executing, Encoding, Writing, or goes to Closed (through
\* the finally clause), which it does from Writing after the whole response
\* and from any state on an error, and Closed is left by no step. A layer is
\* called only with the whole frame read and decoded, and a response byte is
\* written only after every layer of the shard has returned.
C17_ForwardOnly ==
    [][ \A c \in Conns :
          LET r == conns[c]
              q == conns'[c]
              from == Rank(HandlerState(r))
              to == Rank(HandlerState(q))
          IN  /\ from = 0 => to \in {0, 1}
              /\ from \in 1..4 =>
                    \/ to = from /\ q.err = ""
                    \/ to = from + 1 /\ q.err = ""
                    \/ to = 6 /\ q.err # "" /\ q.failedIn = HandlerState(r)
              /\ from = 5 =>
                    \/ to = 5 /\ q.err = ""
                    \/ to = 6 /\ q.err = "" /\ q.tx = pack(Len(r.result)) \o r.result
                    \/ to = 6 /\ q.err # "" /\ q.failedIn = "Writing"
              /\ from = 6 => (to = 6 /\ q = r) \/ to = 7
              /\ from = 7 => to = 7
              /\ Len(q.calls) > Len(r.calls) =>
                    /\ from = 3
                    /\ bytes_recd(r) = r.data_size
                    /\ loads_ok(r.chunks) /\ r.input_data = loads(r.chunks)
              /\ Len(q.tx) > Len(r.tx) =>
                    /\ from = 5
                    /\ Len(r.calls) = Len(worker.transformer_layers_split)
                    /\ r.idx = Len(worker.transformer_layers_split) + 1
                    /\ r.has_output
      ]_vars

\* C17 witness: a handler that went through every state and wrote its whole
\* response, about to close.
C17_Witness ==
    \E c \in Conns :
        /\ HandlerState(conns[c]) = "Closing"
        /\ conns[c].err = ""
        /\ Len(conns[c].calls) = NumLayers
        /\ conns[c].tx = pack(Len(conns[c].result)) \o conns[c].result

\* The connection being handled has a peer that has gone silent for good.
Hung(c) == conns[c].st = "open" /\ conns[c].stalled

\* C18: once the peer of the connection being handled has gone silent without
\* closing, no step changes the handler, which stays in Reading or Writing;
\* the supervisor stays inside handle_client for that connection and accepts
\* nothing; and every other connection that is queued, or connects later,
\* stays unserved.
C18_NoTimeout ==
    [][ \A c \in Conns :
          Hung(c) =>
            /\ HandlerState(conns[c]) \in {"Reading", "Writing"}
            /\ conns'[c] = conns[c]
            /\ sup = "Handling" /\ cur = c
            /\ sup' = "Handling" /\ cur' = c
            /\ \A d \in Conns \ {c} :
                  /\ conns[d].st \in {"none", "queued"} =>
                        conns'[d].st \in {"none", "queued"}
                  /\ conns'[d].st # "open"
      ]_vars

\* C18 witness: the handler hangs in the payload loop with part of the frame
\* in hand while another connection waits in the backlog.
C18_Witness ==
    \E c, d \in Conns :
        /\ Hung(c)
        /\ conns[c].pc = "recv_payload"
        /\ bytes_recd(conns[c]) > 0
        /\ conns[d].st = "queued"

\* C19: the worker never holds more than one listening socket. It holds none
\* before bind and after an error has left the with block, so the socket of
\* the failed iteration is closed when the next iteration binds, and exactly
\* one from a successful bind on.
C19_OneListeningSocket ==
    /\ servers \in {0, 1}
    /\ sup \in {"Unbound", "Failed"} => servers = 0
    /\ sup \in {"Bound", "Accepting", "Handling"} => servers = 1

\* C19 witness: a listener failed with a connection in its backlog, and the
\* next iteration has bound its socket.
C19_Witness ==
    /\ sup = "Bound"
    /\ servers = 1
    /\ \E c \in Conns : conns[c].st = "reset"

\* What is left for the handler to do, counted in steps: the bytes of the
\* frame still missing, the layers still to call, and the statements after.
Remaining(r) ==
    LET L == Len(worker.transformer_layers_split) IN
    CASE r.st # "open" -> 0
      [] r.pc = "recv_header" -> BigLen + L + 9
      [] r.pc = "recv_payload" -> (r.data_size - bytes_recd(r)) + L + 8
      [] r.pc = "decode" -> L + 7
      [] r.pc = "unpack" -> L + 6
      [] r.pc = "layer" -> (L + 1 - r.idx) + 5
      [] r.pc = "build" -> 5
      [] r.pc = "encode" -> 4
      [] r.pc = "send_header" -> 3
      [] r.pc = "send_payload" -> 2
      [] OTHER -> 1

\* C20: every step of a handler brings it strictly closer to Closed (a recv
\* of the payload loop adds at least one byte or raises, a layer step moves
\* on to the next layer or raises), so a handler whose peer does not go
\* silent reaches Closed, and the supervisor is then back at accept().
C20_HandlerTerminates ==
    /\ [][ \A c \in Conns :
             (conns[c].st = "open" /\ conns'[c] # conns[c] /\ ~Stall(c)) =>
                Remaining(conns'[c]) < Remaining(conns[c])
       ]_vars
    /\ \A c \in Conns :
          (conns[c].st = "open") ~> (conns[c].st = "closed" \/ Hung(c))
    /\ (sup = "Handling") ~> (sup = "Accepting" \/ \E c \in Conns : Hung(c))

\* C20 witness: the supervisor is back at accept() after one handler that
\* replied and one that failed, both closed.
C20_Witness ==
    /\ sup = "Accepting"
    /\ \E c, d \in Conns :
          /\ conns[c].st = "closed" /\ conns[c].outcome = "replied"
          /\ conns[d].st = "closed" /\ conns[d].outcome = "failed"

====
